---- MODULE Spec2Model ----
(***************************************************************************)
(* JimengApiClient.generate_image (src/gen_pic_from_pic.py): one call, as  *)
(* a sequence of remote requests.  Every action issues one request (or one *)
(* sleep), takes the response from a small set of response shapes and runs *)
(* the code up to the next request, the return or the raise.               *)
(***************************************************************************)
EXTENDS Integers, Sequences, FiniteSets, TLC

\* ------------------------------------------------------------------ bounds
MaxPolls == 3
MaxItems == 2
MaxCalls == 2
MaxClock == 2
MaxHeaders == 2

\* --------------------------------------------------------- python values
None == "None"
Unbound == "Unbound"

\* a local with no value yet that will hold a response or a dict, the bytes of
\* the image, or the list of URLs
Unset == [kind |-> Unbound]
UnsetBytes == <<-1>>
UnsetUrls == <<Unbound>>

\* bool(x) of an optional string: None and "" are falsy
Truthy(x) == x # None /\ x # ""

\* ----------------------------------------------------------- error kinds
\* the raise sites of the code, named after the error kinds of the spec
NoError == "NoError"
ValidationError == "ValidationError"
UploadError == "UploadError"
TransportError == "TransportError"
SubmissionError == "SubmissionError"
ProtocolError == "ProtocolError"
ContentFilteredError == "ContentFilteredError"
GenerationFailedError == "GenerationFailedError"

\* messages wrapped by the upload's except clause
AuthMessage == "AuthMessage"
FileMessage == "FileMessage"
EnvelopeMessage == "EnvelopeMessage"
UploadCodeMessage == "UploadCodeMessage"
LookupMessage == "LookupMessage"
TransportMessage == "TransportMessage"

\* -------------------------------------------------------- request names
ReqToken == "/mweb/v1/get_upload_token"
ReqFile == "get_file_content"
ReqApply == "ApplyImageUpload"
ReqRaw == "/upload/v1"
ReqCommit == "CommitImageUpload"
ReqCredit == "/commerce/v1/benefits/user_credit"
ReqReceive == "/commerce/v1/benefits/credit_receive"
ReqGenerate == "/mweb/v1/aigc_draft/generate"
ReqHistory == "/mweb/v1/get_history_by_ids"
Sleep1 == "sleep"

\* ------------------------------------------------------- response shapes
\* kind "raise": the transport raised; kind "json": a parsed body
Raise == "raise"
Json == "json"

Prompts == {"", "a dog", None}
FilePaths == {None, "", "01.jpeg"}

AuthResponses ==
    [kind : {Raise}, data : {None}] \cup [kind : {Json}, data : {None, "auth", "auth2"}]

\* the bytes _get_file_content returns: the example call reads one file, the
\* upload is also run over the others
FileResults == [kind : {Raise}, data : {<<>>}] \cup [kind : {"bytes"}, data : {<<97>>}]
AllFileResults ==
    [kind : {Raise}, data : {<<>>}]
    \cup [kind : {"bytes"}, data : {<<>>, <<97>>, <<255>>, <<97, 32>>, <<97, 98, 99>>}]

\* envelope: Response.Error present; result: the Result payload or None
ApplyResponses ==
    [kind : {Raise}, envelope : {FALSE}, result : {None}]
    \cup [kind : {Json}, envelope : BOOLEAN, result : {None, "address", "address2"}]

PENDING == 20
FAILED == 30
UploadOk == 2000
NoCode == -1

RawResponses ==
    [kind : {Raise}, code : {NoCode}]
    \cup [kind : {Json}, code : {NoCode, UploadOk, UploadOk + 1}]

CommitResponses ==
    [kind : {Raise}, envelope : {FALSE}, uri : {None}]
    \cup [kind : {Json}, envelope : BOOLEAN, uri : {None, "uri1", "uri2"}]

\* a credit field is <<>> when absent and <<n>> when present
CreditVals == {<<>>, <<0>>, <<1>>, <<-1>>}
CreditResponses ==
    [kind : {Raise}, gift_credit : {<<>>}, purchase_credit : {<<>>}, vip_credit : {<<>>}]
    \cup [kind : {Json}, gift_credit : CreditVals, purchase_credit : {<<>>, <<0>>, <<1>>},
          vip_credit : {<<>>, <<0>>}]

ReceiveResponses == {Raise, Json}

GenerateResponses ==
    [kind : {Raise}, history_record_id : {None}]
    \cup [kind : {Json}, history_record_id : {None, "", "h1"}]

\* an item of item_list: large_images lists the image_url of each entry
\* (None: the entry has none); absent and empty lists are both <<>>
LargeImages == {<<>>, <<None>>, <<"L1", "L2">>}
Items == [large_images : LargeImages, cover_url : {None, "C1"}]

RECURSIVE SeqsUpTo(_, _)
SeqsUpTo(S, n) ==
    IF n = 0 THEN {<<>>}
    ELSE LET shorter == SeqsUpTo(S, n - 1)
         IN  shorter \cup {Append(s, x) : s \in {t \in shorter : Len(t) = n - 1}, x \in S}

ItemLists == SeqsUpTo(Items, MaxItems)

NoStatus == -1
StatusValues == {PENDING, FAILED, 50, 42, NoStatus}
FailCodes == {None, "2038", "int:2038", "1000"}

\* record: "absent" (no entry for history_id), "empty" ({}), "present";
\* a pending record comes with few fail_code and item_list values, a record of
\* any other status with all of them
PendingItemLists == {<<>>, <<[large_images |-> <<"L1", "L2">>, cover_url |-> None]>>}

HistoryResponses ==
    [kind : {Raise}, record : {"absent"}, status : {NoStatus}, fail_code : {None},
     item_list : {<<>>}]
    \cup [kind : {Json}, record : {"absent", "empty"}, status : {NoStatus},
          fail_code : {None}, item_list : {<<>>}]
    \cup [kind : {Json}, record : {"present"}, status : {PENDING},
          fail_code : {None, "2038"}, item_list : PendingItemLists]
    \cup [kind : {Json}, record : {"present"}, status : StatusValues \ {PENDING},
          fail_code : FailCodes, item_list : ItemLists]

\* ------------------------------------------------------------ arguments
\* the arguments of the example call, and a wider choice for the draft
DefaultArgs == [model : {None}, dims : {<<1024, 1024>>}, sample_strength : {"0.5"}]
AllArgs ==
    [model : {None, "", "jimeng-2.1", "no-such-model"},
     dims : {<<1024, 1024>>, <<512, 768>>},
     sample_strength : {"0.5", "0.8"}]

\* JimengApiClient.MODEL_MAP
MODEL_MAP ==
    [m \in {"jimeng-3.1", "jimeng-3.0", "jimeng-2.1", "jimeng-2.0-pro", "jimeng-2.0",
            "jimeng-1.4", "jimeng-xl-pro"} |->
        CASE m = "jimeng-3.1" -> "high_aes_general_v30l_art_fangzhou:general_v3.0_18b"
          [] m = "jimeng-3.0" -> "high_aes_general_v30l:general_v3.0_18b"
          [] m = "jimeng-2.1" -> "high_aes_general_v21_L:general_v2.1_L"
          [] m = "jimeng-2.0-pro" -> "high_aes_general_v20_L:general_v2.0_L"
          [] m = "jimeng-2.0" -> "high_aes_general_v20:general_v2.0"
          [] m = "jimeng-1.4" -> "high_aes_general_v14:general_v1.4"
          [] m = "jimeng-xl-pro" -> "text2img_xl_sft"]

DEFAULT_MODEL == "jimeng-3.1"
DEFAULT_BLEND_MODEL == "jimeng-3.0"

\* random.randint(2500000000, 2600000000): a seed is <<q, r>>, standing for
\* q * 10^8 + r with 0 <= r < 10^8; both ends of the range can be drawn
Seeds == {<<25, 0>>, <<25, 1>>, <<25, 99999999>>, <<26, 0>>}

VARIABLES
    pc,               \* position in generate_image
    prompt,           \* argument
    file_path,        \* argument
    model,            \* argument
    width,            \* argument
    height,           \* argument
    sample_strength,  \* argument
    actual_model,     \* generate_image: the backend model id
    rq_data,          \* generate_image: the body of the submission
    uuid_count,       \* number of values _generate_uuid has returned so far
    calls,            \* number of generate_image calls begun
    prev_ids,         \* the identifiers of the drafts of the earlier calls
    image_data,       \* _upload_cover_file: the bytes read
    image_crc32,      \* _upload_cover_file: the Content-Crc32 value
    clock,            \* seconds gone by on the clock time.gmtime() reads
    sign_args,        \* the arguments of the last two signer calls, oldest first
    sign_result,      \* what each of these calls returned
    trace,            \* requests and sleeps issued so far, in order
    auth_res,         \* _get_upload_auth: response of the token endpoint
    upload_img_res,   \* _upload_cover_file: response of ApplyImageUpload
    image_upload_res, \* _upload_cover_file: response of the raw upload
    commit_img,       \* _upload_cover_file: response of CommitImageUpload
    upload_id,        \* generate_image: the Uri the upload returned
    sent,             \* the requests of the upload as they were sent, in order
    credit_info,      \* generate_image: result of get_credit
    history_id,       \* generate_image
    record,           \* generate_image: the record of the last status response
    status,           \* generate_image
    fail_code,        \* generate_image
    item_list,        \* generate_image
    image_urls,       \* the value returned, UnsetUrls until the call returns
    err,              \* the error raised to the caller, NoError until then
    err_msg           \* the message the error carries (the wrapped cause)

vars == <<pc, prompt, file_path, model, width, height, sample_strength, actual_model,
          rq_data, uuid_count, calls, prev_ids, image_data, image_crc32, clock,
          sign_args, sign_result, trace, auth_res, upload_img_res, image_upload_res,
          commit_img, upload_id, sent, credit_info, history_id, record, status,
          fail_code, item_list, image_urls, err, err_msg>>

\* every step of a call moves pc or adds to trace
progressVars == <<pc, trace>>
callVars == <<model, width, height, sample_strength, calls, prev_ids>>
draftVars == <<actual_model, rq_data, uuid_count>>
imageVars == <<image_data, image_crc32>>
signerVars == <<clock, sign_args, sign_result>>
uploadVars == <<auth_res, upload_img_res, image_upload_res, commit_img, upload_id, sent>>
pollVars == <<record, status, fail_code, item_list>>

\* ------------------------------------------------------- code conditions
\* a check that tests only for None
PromptInvalid_None(p) == p = None

\* generate_image: not prompt or not isinstance(prompt, str)
PromptInvalid(p) == ~Truthy(p)

\* the upload is never chosen
HasFilePath_Never(fp) == FALSE

\* generate_image: has_file_path = bool(file_path)
HasFilePath(fp) == Truthy(fp)

\* _get_upload_auth: not auth_res.get('data')
AuthMissing(r) == ~Truthy(r.data)

\* the envelope is looked at only when the payload is missing
ApplyHasError_NoResult(r) == r.envelope /\ r.result = None

\* _upload_cover_file: 'Response' in upload_img_res and 'Error' in its 'Response'
ApplyHasError(r) == r.envelope

\* _upload_cover_file: 'Response' in commit_img and 'Error' in its 'Response'
CommitHasError(r) == r.envelope

\* _upload_cover_file: image_upload_res.get('code') != 2000
UploadCodeBad(r) == r.code # UploadOk

\* get_credit: credit.get(name, 0)
CreditOf(v) == IF v = <<>> THEN 0 ELSE v[1]

\* get_credit: the dictionary returned
CreditInfo(r) ==
    [gift_credit |-> CreditOf(r.gift_credit),
     purchase_credit |-> CreditOf(r.purchase_credit),
     vip_credit |-> CreditOf(r.vip_credit),
     total_credit |-> CreditOf(r.gift_credit) + CreditOf(r.purchase_credit)
                      + CreditOf(r.vip_credit)]

\* the grant is claimed only at a total of exactly zero
NeedReceive_Zero(ci) == ci.total_credit = 0

\* generate_image: credit_info['total_credit'] <= 0
NeedReceive(ci) == ci.total_credit <= 0

\* a check that tests only for None
HistoryIdMissing_None(h) == h = None

\* generate_image: not history_id
HistoryIdMissing(h) == ~Truthy(h)

\* the check of the record is left out
RecordMissing_Never(rec) == FALSE

\* generate_image: not record
RecordMissing(rec) == rec # "present"

\* the loop goes on until the job has failed
LoopContinues_Unfailed(st) == st # FAILED

\* the loop gives up after two status requests
LoopContinues_Capped(st) ==
    st = PENDING /\ Cardinality({i \in DOMAIN trace : trace[i] = ReqHistory}) < 1

\* generate_image: while status == 20
LoopContinues(st) == st = PENDING

\* generate_image: status == 30
IsFailed(st) == st = FAILED

\* a comparison that takes the integer 2038 for the string
IsFiltered_Loose(fc) == fc \in {"2038", "int:2038"}

\* generate_image: fail_code == '2038' (an integer 2038 is not the string)
IsFiltered(fc) == fc = "2038"

\* generate_image: the URL one item of item_list yields, None if it yields none
ImageUrlOf(item) ==
    IF item.large_images # <<>>
    THEN item.large_images[1]
    ELSE IF Truthy(item.cover_url) THEN item.cover_url ELSE None

\* generate_image: the for loop collecting image_urls
RECURSIVE ExtractUrls(_)
ExtractUrls(items) ==
    IF items = <<>> THEN <<>>
    ELSE LET url == ImageUrlOf(Head(items))
         IN  (IF Truthy(url) THEN <<url>> ELSE <<>>) \o ExtractUrls(Tail(items))

\* the status request comes first in the body of the loop
LoopBody_NoSleep == "poll"

\* while status == 20: the body of the loop begins with time.sleep(1)
LoopBody == "sleep"

\* number of status requests issued so far
Polls == Cardinality({i \in DOMAIN trace : trace[i] = ReqHistory})

\* ----------------------------------------------------------- the checksum
\* a 32-bit value is a function from 1..32 to {0, 1}, bit 0 at index 1
Xor(a, b) == [i \in 1..32 |-> (a[i] + b[i]) % 2]
Shr(a, k) == [i \in 1..32 |-> IF i + k <= 32 THEN a[i + k] ELSE 0]

HexDigits == <<"0", "1", "2", "3", "4", "5", "6", "7", "8", "9", "a", "b", "c", "d", "e", "f">>

\* the low 32 bits of a number written as hexadecimal digits
FromHex(h) ==
    [i \in 1..32 |->
        LET b == i - 1
            pos == Len(h) - (b \div 4)
        IN  IF pos < 1 THEN 0
            ELSE (((CHOOSE k \in 1..16 : HexDigits[k] = h[pos]) - 1) \div 2^(b % 4)) % 2]

\* 0 <= n < 256 as a word
ByteWord(n) == [i \in 1..32 |-> IF i > 8 THEN 0 ELSE (n \div 2^(i - 1)) % 2]

\* the polynomial with two digits changed
CrcPoly_D97 == <<"1", "0", "4", "c", "1", "1", "d", "9", "7">>

\* _upload_cover_file: crcmod.mkCrcFun(0x104c11db7, initCrc=0, xorOut=0xFFFFFFFF)
CrcPoly == <<"1", "0", "4", "c", "1", "1", "d", "b", "7">>
InitCrc == [i \in 1..32 |-> 0]
XorOut == [i \in 1..32 |-> 1]

\* crcmod, rev=True: the table entry of c in n steps, polyr being the
\* bit-reversed polynomial
RECURSIVE TableSteps(_, _, _)
TableSteps(c, polyr, n) ==
    IF n = 0 THEN c
    ELSE TableSteps(IF c[1] = 1 THEN Xor(Shr(c, 1), polyr) ELSE Shr(c, 1), polyr, n - 1)

\* crcmod, rev=True: crc = table[(byte ^ crc) & 0xff] ^ (crc >> 8), byte by byte
RECURSIVE CrcUpdate(_, _, _)
CrcUpdate(crc, data, poly) ==
    LET polyr == [i \in 1..32 |-> FromHex(poly)[33 - i]]
        index == [i \in 1..32 |-> IF i <= 8 THEN Xor(crc, ByteWord(Head(data)))[i] ELSE 0]
    IN  IF data = <<>> THEN crc
        ELSE CrcUpdate(Xor(TableSteps(index, polyr, 8), Shr(crc, 8)), Tail(data), poly)

\* crcmod: crcfun(data) = xorOut ^ fun(data, xorOut ^ initCrc)
CrcWith(poly, data) == Xor(XorOut, CrcUpdate(Xor(XorOut, InitCrc), data, poly))

\* _upload_cover_file: crc32_func(image_data)
Crc32Func(data) == CrcWith(CrcPoly, data)

\* the hexadecimal digit of bits 4k .. 4k+3
Nibble(a, k) == HexDigits[1 + a[4 * k + 1] + 2 * a[4 * k + 2] + 4 * a[4 * k + 3]
                            + 8 * a[4 * k + 4]]

RECURSIVE HexFrom(_, _)
HexFrom(a, k) == IF k < 0 THEN "" ELSE Nibble(a, k) \o HexFrom(a, k - 1)

\* _upload_cover_file: hex(...)[2:], lower case with no leading zero
HexOf(a) ==
    IF \A i \in 1..32 : a[i] = 0 THEN "0"
    ELSE HexFrom(a, CHOOSE k \in 0..7 :
                        Nibble(a, k) # "0" /\ \A j \in (k + 1)..7 : Nibble(a, j) = "0")

\* ------------------------------------------------------------- the draft
\* _get_model: MODEL_MAP.get(model, MODEL_MAP[DEFAULT_MODEL])
GetModel(m) == IF m \in DOMAIN MODEL_MAP THEN MODEL_MAP[m] ELSE MODEL_MAP[DEFAULT_MODEL]

\* the caller's model is honoured in blend mode too
ModelName_Caller(has_file, m) == IF Truthy(m) THEN m ELSE DEFAULT_MODEL

\* generate_image: DEFAULT_BLEND_MODEL if has_file_path else (model or DEFAULT_MODEL)
ModelName(has_file, m) ==
    IF has_file THEN DEFAULT_BLEND_MODEL ELSE IF Truthy(m) THEN m ELSE DEFAULT_MODEL

\* the metadata node takes the identifier of the component
BlendIds_Reuse(u) ==
    [component |-> u + 1, ability |-> u + 2, core_param |-> u + 3,
     large_image_info |-> u + 4, ability_item |-> u + 5, image |-> u + 6,
     history_option |-> u + 7, placeholder |-> u + 8, postedit |-> u + 9,
     submit |-> u + 10, draft |-> u + 11, metadata |-> u + 1, abilities |-> u + 13]

\* generate_image with a file: the _generate_uuid() calls in evaluation order,
\* the k-th value the generator returns being k
BlendIds(u) ==
    [component |-> u + 1, ability |-> u + 2, core_param |-> u + 3,
     large_image_info |-> u + 4, ability_item |-> u + 5, image |-> u + 6,
     history_option |-> u + 7, placeholder |-> u + 8, postedit |-> u + 9,
     submit |-> u + 10, draft |-> u + 11, metadata |-> u + 12, abilities |-> u + 13]

\* generate_image without a file: the _generate_uuid() calls in evaluation order
GenerateIds(u) ==
    [component |-> u + 1, ability |-> u + 2, core_param |-> u + 3,
     large_image_info |-> u + 4, history_option |-> u + 5, submit |-> u + 6,
     draft |-> u + 7, metadata |-> u + 8, abilities |-> u + 9]

\* generate_image: the large_image_info node
LargeImageInfo(id, h, w) ==
    [id |-> id, height |-> h, width |-> w, resolution_type |-> "1k"]

\* the canvas of the blend ability follows the caller
BlendCanvas_Caller(w, h) == <<w, h>>

\* generate_image: the width and height of the blend ability
BlendCanvas(w, h) == <<1360, 1360>>

\* generate_image: abilities = {"blend": ...}
BlendAbility(ids, actual, p, strength, uri, w, h) ==
    [id |-> ids.ability,
     core_param |->
        [id |-> ids.core_param, model |-> actual, prompt |-> p \o "##",
         sample_strength |-> strength, image_ratio |-> 1,
         large_image_info |->
            LargeImageInfo(ids.large_image_info, BlendCanvas(w, h)[2], BlendCanvas(w, h)[1])],
     ability_list |->
        << [id |-> ids.ability_item, name |-> "byte_edit", image_uri_list |-> <<uri>>,
            image_list |-> << [type |-> "image", id |-> ids.image, source_from |-> "upload",
                               image_uri |-> uri, uri |-> uri] >>,
            strength |-> "0.5"] >>,
     history_option |-> [id |-> ids.history_option],
     prompt_placeholder_info_list |-> << [id |-> ids.placeholder, ability_index |-> 0] >>,
     postedit_param |-> [id |-> ids.postedit, generate_type |-> 0]]

\* generate_image: abilities = {"generate": ...}
GenerateAbility(ids, actual, p, strength, seed, w, h) ==
    [id |-> ids.ability,
     core_param |->
        [id |-> ids.core_param, model |-> actual, prompt |-> p, seed |-> seed,
         sample_strength |-> strength, image_ratio |-> 1,
         large_image_info |-> LargeImageInfo(ids.large_image_info, h, w)],
     history_option |-> [id |-> ids.history_option]]

\* generate_image: rq_data; abilities maps the name of each ability to its node
BuildDraft(has_file, actual, p, strength, uri, w, h, seed, u) ==
    LET ids == IF has_file THEN BlendIds(u) ELSE GenerateIds(u)
        ability == IF has_file
                   THEN "blend" :> BlendAbility(ids, actual, p, strength, uri, w, h)
                   ELSE "generate" :> GenerateAbility(ids, actual, p, strength, seed, w, h)
    IN  [extend |-> [root_model |-> actual],
         submit_id |-> ids.submit,
         draft_content |->
            [type |-> "draft", id |-> ids.draft, main_component_id |-> ids.component,
             component_list |->
                << [type |-> "image_base_component", id |-> ids.component,
                    metadata |-> [id |-> ids.metadata],
                    generate_type |-> IF has_file THEN "blend" ELSE "generate",
                    abilities |-> [id |-> ids.abilities, ability |-> ability]] >>],
         has_metrics_extra |-> ~has_file]

\* the number of _generate_uuid() calls of one draft
NumIds(has_file) ==
    Cardinality(DOMAIN (IF has_file THEN BlendIds(0) ELSE GenerateIds(0)))

\* the identifier of every node of a submission, read off rq_data
IdsOf(rq) ==
    LET comp == rq.draft_content.component_list[1]
        name == CHOOSE n \in DOMAIN comp.abilities.ability : TRUE
        ab == comp.abilities.ability[name]
        common == <<rq.submit_id, rq.draft_content.id, comp.id, comp.metadata.id,
                    comp.abilities.id, ab.id, ab.core_param.id,
                    ab.core_param.large_image_info.id, ab.history_option.id>>
    IN  IF name = "blend"
        THEN common \o <<ab.ability_list[1].id, ab.ability_list[1].image_list[1].id,
                         ab.prompt_placeholder_info_list[1].id, ab.postedit_param.id>>
        ELSE common

\* -------------------------------------------------------------- the signer
\* a header name is a sequence of characters; the characters in code point order
Ascii ==
    <<"-", "0", "1", "2", "3", "4", "5", "6", "7", "8", "9",
      "A", "B", "C", "D", "E", "F", "G", "H", "I", "J", "K", "L", "M",
      "N", "O", "P", "Q", "R", "S", "T", "U", "V", "W", "X", "Y", "Z",
      "a", "b", "c", "d", "e", "f", "g", "h", "i", "j", "k", "l", "m",
      "n", "o", "p", "q", "r", "s", "t", "u", "v", "w", "x", "y", "z">>

Ord == [c \in {Ascii[k] : k \in DOMAIN Ascii} |-> CHOOSE k \in DOMAIN Ascii : Ascii[k] = c]

\* str.lower()
LowerChar(c) == IF Ord[c] \in Ord["A"]..Ord["Z"] THEN Ascii[Ord[c] + (Ord["a"] - Ord["A"])] ELSE c
Lower(name) == [i \in DOMAIN name |-> LowerChar(name[i])]

\* the order sorted() puts names in: by code point, a proper prefix first
StrLess(a, b) ==
    \E k \in 1..(Len(a) + 1) :
        /\ k <= Len(b)
        /\ \A j \in 1..(k - 1) : a[j] = b[j]
        /\ k <= Len(a) => Ord[a[k]] < Ord[b[k]]

\* sep.join(names)
RECURSIVE Join(_, _)
Join(names, sep) ==
    IF names = <<>> THEN <<>>
    ELSE IF Len(names) = 1 THEN names[1]
    ELSE names[1] \o <<sep>> \o Join(Tail(names), sep)

\* a dict is the sequence of its <<key, value>> items in insertion order
Keys(d) == [i \in DOMAIN d |-> d[i][1]]
Get(d, key) == d[CHOOSE i \in DOMAIN d : d[i][1] = key][2]

XAmzDate == <<"X", "-", "A", "m", "z", "-", "D", "a", "t", "e">>
XAmzSecurityToken ==
    <<"X", "-", "A", "m", "z", "-", "S", "e", "c", "u", "r", "i", "t", "y", "-",
      "T", "o", "k", "e", "n">>
XAmzContentSha256 ==
    <<"X", "-", "A", "m", "z", "-", "C", "o", "n", "t", "e", "n", "t", "-",
      "S", "h", "a", "2", "5", "6">>
Authorization == <<"A", "u", "t", "h", "o", "r", "i", "z", "a", "t", "i", "o", "n">>
ContentType == <<"C", "o", "n", "t", "e", "n", "t", "-", "T", "y", "p", "e">>

\* hashlib.sha256(...).hexdigest(), hmac.new(key, msg, sha256) and json.dumps as
\* terms: equal digests only for equal inputs
Sha256(text) == <<"sha256", text>>
Hmac(key, msg) == <<"hmac", key, msg>>
JsonDumps(body) == <<"json", body>>

\* time.gmtime() after t seconds, the first second being the last of a day
GmTime(t) ==
    IF t = 0 THEN [day |-> "20241231", time |-> "235959"]
    ELSE [day |-> "20250101", time |-> "00000" \o ToString(t - 1)]

\* time.strftime('%Y%m%dT%H%M%SZ', now): amz_date keeps its first 8 characters
\* apart from the rest
Strftime(now) == [day |-> now.day, rest |-> "T" \o now.time \o "Z"]
AmzText(amz_date) == amz_date.day \o amz_date.rest

\* request_method.upper()
Upper(m) ==
    CASE m \in {"GET", "get"} -> "GET"
      [] m \in {"POST", "post"} -> "POST"

\* a request body is a function of its keys, {} being the one with no key
EmptyBody == [k \in {} |-> ""]
BodyTruthy(body) == DOMAIN body # {}

\* the digest header is sent with an empty body too
AddHeaders_Always(amz_date, session_token, request_body) ==
    << <<XAmzDate, AmzText(amz_date)>>, <<XAmzSecurityToken, session_token>>,
       <<XAmzContentSha256, Sha256(JsonDumps(request_body))>> >>

\* _add_headers
AddHeaders(amz_date, session_token, request_body) ==
    << <<XAmzDate, AmzText(amz_date)>>, <<XAmzSecurityToken, session_token>> >>
    \o (IF BodyTruthy(request_body)
        THEN << <<XAmzContentSha256, Sha256(JsonDumps(request_body))>> >>
        ELSE <<>>)

\* the day is taken from the clock again
AmzDay_Reread(amz_date) == GmTime(clock).day

\* amz_date[:8]
AmzDay(amz_date) == amz_date.day

\* _credential_string: the parts that '/' joins
CredentialString(amz_date, region, service) ==
    <<AmzDay(amz_date), region, service, "aws4_request">>

\* _signed_headers: the names lower-cased, then sorted, then joined by ';'
SignedHeaders(request_headers) ==
    Join(SortSeq([i \in DOMAIN request_headers |-> Lower(Keys(request_headers)[i])], StrLess), ";")

\* _canonical_string: the key:value lines, the keys sorted and then lower-cased
CanonicalHeaders(request_headers) ==
    LET keys == SortSeq(Keys(request_headers), StrLess)
    IN  [i \in DOMAIN keys |-> <<Lower(keys[i]), Get(request_headers, keys[i])>>]

\* urlencode(query): the key=value parts that '&' joins, in the order of the
\* dict; FileSize is the one number among the values and goes through str(), and
\* no character of these keys and values is quoted
Urlencode(query) ==
    [i \in DOMAIN query |->
        <<query[i][1], "=",
          IF query[i][1] = "FileSize" THEN ToString(query[i][2]) ELSE query[i][2]>>]

\* _canonical_string: the parts that '\n' joins
CanonicalString(request_method, request_params, request_headers, request_body) ==
    [method |-> Upper(request_method),
     path |-> "/",
     query |-> Urlencode(request_params),
     canonical_headers |-> CanonicalHeaders(request_headers),
     signed_headers |-> SignedHeaders(request_headers),
     payload |-> Sha256(IF BodyTruthy(request_body) THEN JsonDumps(request_body) ELSE "")]

\* _signature: signing_key, string_to_sign (the parts that '\n' joins) and the
\* digest returned
Signature(secret_access_key, amz_date, region, service, method, params, headers, body) ==
    LET amz_day == AmzDay(amz_date)
        k_date == Hmac(<<"AWS4", secret_access_key>>, amz_day)
        k_region == Hmac(k_date, region)
        k_service == Hmac(k_region, service)
        signing_key == Hmac(k_service, "aws4_request")
        string_to_sign ==
            <<"AWS4-HMAC-SHA256", AmzText(amz_date),
              CredentialString(amz_date, region, service),
              Sha256(CanonicalString(method, params, headers, body))>>
    IN  Hmac(signing_key, string_to_sign)

\* request_body is <<>> for None and <<body>> otherwise:
\* if request_body is None: request_body = {}
BodyOf(a) == IF a.request_body = <<>> THEN EmptyBody ELSE a.request_body[1]

\* _generate_authorization_and_header once now = time.gmtime() is read;
\* Authorization is the parts that ', ' joins
GenerateAuthorizationAndHeader(now, a) ==
    LET amz_date == Strftime(now)
        request_body == BodyOf(a)
        request_headers == AddHeaders(amz_date, a.session_token, request_body)
        authorization ==
            [credential |-> <<a.access_key_id,
                              CredentialString(amz_date, a.region, a.service)>>,
             signed_headers |-> SignedHeaders(request_headers),
             signature |-> Signature(a.secret_access_key, amz_date, a.region, a.service,
                                     a.request_method, a.request_params,
                                     request_headers, request_body)]
    IN  Append(request_headers, <<Authorization, authorization>>)

\* ------------------------------------------- the requests of the upload
\* _get_upload_auth returns auth_res['data']: the fields of the token that the
\* response names
UploadAuth(data) ==
    [access_key_id |-> "ak:" \o data, secret_access_key |-> "sk:" \o data,
     session_token |-> "st:" \o data]

\* upload_img_res['Result']['UploadAddress']: the fields of the address that
\* the response names
UploadAddress(result) ==
    [SessionKey |-> "key:" \o result, UploadHost |-> "host:" \o result,
     StoreUri |-> "uri:" \o result, Auth |-> "auth:" \o result]

\* the query parameters of the two signed requests of _upload_cover_file
ApplyParams(data, s) ==
    << <<"Action", "ApplyImageUpload">>, <<"FileSize", Len(data)>>,
       <<"ServiceId", "tb4s082cfz">>, <<"Version", "2018-08-01">>, <<"s", s>> >>
CommitParams(data) ==
    << <<"Action", "CommitImageUpload">>, <<"FileSize", Len(data)>>,
       <<"ServiceId", "tb4s082cfz">>, <<"Version", "2018-08-01">> >>

\* _generate_random_string(11): one of the strings it can return
RandomString == "k3x9q0a7bzc"

\* _upload_cover_file: the call of the signer with the credentials of the
\* token; the arguments are evaluated once, before the call
SignedHeadersInfo(upload_auth, method, params, body) ==
    CHOOSE request_headers_info \in
        {GenerateAuthorizationAndHeader(a.now, a) :
            a \in {[now |-> GmTime(clock),
                     access_key_id |-> upload_auth.access_key_id,
                     secret_access_key |-> upload_auth.secret_access_key,
                     session_token |-> upload_auth.session_token,
                     region |-> "cn-north-1", service |-> "imagex",
                     request_method |-> method, request_params |-> params,
                     request_body |-> body]}} : TRUE

\* _upload_cover_file: the GET of ApplyImageUpload as it is sent
ApplyRequest(upload_auth, data) ==
    LET params == ApplyParams(data, RandomString)
    IN  [method |-> "GET", query |-> Urlencode(params),
         headers |-> SignedHeadersInfo(upload_auth, "GET", params, <<>>)]

\* _upload_cover_file: requests.post(upload_img_url, data=image_data,
\* headers=upload_headers)
RawRequest(upload_address, data, crc) ==
    [method |-> "POST", host |-> upload_address.UploadHost,
     store_uri |-> upload_address.StoreUri, authorization |-> upload_address.Auth,
     content_crc32 |-> crc, content_type |-> "application/octet-stream",
     data |-> data]

\* the key committed is read from the store entry of the address
CommitRequest_StoreUri(upload_auth, upload_address, data) ==
    LET params == CommitParams(data)
        content == [SessionKey |-> upload_address.StoreUri]
    IN  [method |-> "POST", query |-> Urlencode(params),
         headers |-> Append(SignedHeadersInfo(upload_auth, "POST", params, <<content>>),
                            <<ContentType, "application/json">>),
         json |-> content]

\* _upload_cover_file: the POST of CommitImageUpload as it is sent
CommitRequest(upload_auth, upload_address, data) ==
    LET params == CommitParams(data)
        content == [SessionKey |-> upload_address.SessionKey]
    IN  [method |-> "POST", query |-> Urlencode(params),
         headers |-> Append(SignedHeadersInfo(upload_auth, "POST", params, <<content>>),
                            <<ContentType, "application/json">>),
         json |-> content]

\* ------------------------------------------------------------ transitions
Issue(req) == trace' = Append(trace, req)

\* the failure is swallowed and the step is tried again
RaiseError_Retry(kind, msg) ==
    /\ pc' = pc
    /\ UNCHANGED <<err, err_msg>>

\* an exception leaves generate_image
RaiseError(kind, msg) ==
    /\ pc' = "raised"
    /\ err' = kind
    /\ err_msg' = msg

\* _upload_cover_file: except Exception as e: raise Exception("...: " + str(e))
RaiseInUpload(msg) == RaiseError(UploadError, msg)

Continue(next) ==
    /\ pc' = next
    /\ UNCHANGED <<err, err_msg>>

\* the locals of a call that has not begun to run
FreshLocals ==
    /\ pc = "start"
    /\ trace = <<>>
    /\ auth_res = Unset
    /\ upload_img_res = Unset
    /\ image_upload_res = Unset
    /\ commit_img = Unset
    /\ upload_id = None
    /\ sent = <<>>
    /\ image_data = UnsetBytes
    /\ image_crc32 = Unbound
    /\ actual_model = Unbound
    /\ rq_data = Unset
    /\ credit_info = Unset
    /\ history_id = Unbound
    /\ record = Unbound
    /\ status = NoStatus
    /\ fail_code = None
    /\ item_list = <<>>
    /\ image_urls = UnsetUrls
    /\ err = NoError
    /\ err_msg = None

\* the locals of the next call
ResetLocals ==
    /\ pc' = "start"
    /\ trace' = <<>>
    /\ auth_res' = Unset
    /\ upload_img_res' = Unset
    /\ image_upload_res' = Unset
    /\ commit_img' = Unset
    /\ upload_id' = None
    /\ sent' = <<>>
    /\ image_data' = UnsetBytes
    /\ image_crc32' = Unbound
    /\ actual_model' = Unbound
    /\ rq_data' = Unset
    /\ credit_info' = Unset
    /\ history_id' = Unbound
    /\ record' = Unbound
    /\ status' = NoStatus
    /\ fail_code' = None
    /\ item_list' = <<>>
    /\ image_urls' = UnsetUrls
    /\ err' = NoError
    /\ err_msg' = None

\* the first call, with its arguments taken from Args; no signer call yet
InitWith(Args) ==
    /\ prompt \in Prompts
    /\ file_path \in FilePaths
    /\ \E a \in Args :
        /\ model = a.model
        /\ width = a.dims[1]
        /\ height = a.dims[2]
        /\ sample_strength = a.sample_strength
    /\ uuid_count = 0
    /\ calls = 1
    /\ prev_ids = {}
    /\ FreshLocals
    /\ clock = 0
    /\ sign_args = <<>>
    /\ sign_result = <<>>

Init == InitWith(DefaultArgs)

\* generate_image: the prompt check and the choice of the upload
Validate ==
    /\ pc = "start"
    /\ IF PromptInvalid(prompt)
       THEN RaiseError(ValidationError, ValidationError)
       ELSE Continue(IF HasFilePath(file_path) THEN "get_upload_auth" ELSE "get_credit")
    /\ UNCHANGED <<prompt, file_path, callVars, signerVars, imageVars, draftVars>>
    /\ UNCHANGED <<trace, uploadVars, credit_info, history_id,
                   pollVars, image_urls>>

\* _upload_cover_file -> _get_upload_auth
GetUploadAuth ==
    /\ pc = "get_upload_auth"
    /\ \E r \in AuthResponses :
        /\ Issue(ReqToken)
        /\ auth_res' = r
        /\ IF r.kind = Raise THEN RaiseInUpload(TransportMessage)
           ELSE IF AuthMissing(r) THEN RaiseInUpload(AuthMessage)
           ELSE Continue("get_file_content")
    /\ UNCHANGED <<prompt, file_path, callVars, signerVars, imageVars, draftVars>>
    /\ UNCHANGED <<upload_img_res, image_upload_res, commit_img,
                   upload_id, sent, credit_info, history_id, pollVars, image_urls>>

\* _upload_cover_file -> _get_file_content, and the checksum of the bytes
GetFileContentFrom(results) ==
    /\ pc = "get_file_content"
    /\ \E r \in results :
        /\ Issue(ReqFile)
        /\ IF r.kind = Raise
           THEN RaiseInUpload(FileMessage) /\ UNCHANGED imageVars
           ELSE /\ image_data' = r.data
                /\ image_crc32' = HexOf(Crc32Func(r.data))
                /\ Continue("apply")
    /\ UNCHANGED <<prompt, file_path, callVars, signerVars, draftVars>>
    /\ UNCHANGED <<uploadVars, credit_info, history_id, pollVars,
                   image_urls>>

GetFileContent == GetFileContentFrom(FileResults)

\* _upload_cover_file: the signed GET ApplyImageUpload
ApplyImageUpload ==
    /\ pc = "apply"
    /\ \E r \in ApplyResponses :
        /\ Issue(ReqApply)
        /\ sent' = Append(sent, ApplyRequest(UploadAuth(auth_res.data), image_data))
        /\ upload_img_res' = r
        /\ IF r.kind = Raise THEN RaiseInUpload(TransportMessage)
           ELSE IF ApplyHasError(r) THEN RaiseInUpload(EnvelopeMessage)
           ELSE IF r.result = None THEN RaiseInUpload(LookupMessage)
           ELSE Continue("upload")
    /\ UNCHANGED <<prompt, file_path, callVars, signerVars, imageVars, draftVars>>
    /\ UNCHANGED <<auth_res, image_upload_res, commit_img, upload_id,
                   credit_info, history_id, pollVars, image_urls>>

\* _upload_cover_file: the POST of the image bytes
RawUpload ==
    /\ pc = "upload"
    /\ \E r \in RawResponses :
        /\ Issue(ReqRaw)
        /\ sent' = Append(sent, RawRequest(UploadAddress(upload_img_res.result),
                                           image_data, image_crc32))
        /\ image_upload_res' = r
        /\ IF r.kind = Raise THEN RaiseInUpload(TransportMessage)
           ELSE IF UploadCodeBad(r) THEN RaiseInUpload(UploadCodeMessage)
           ELSE Continue("commit")
    /\ UNCHANGED <<prompt, file_path, callVars, signerVars, imageVars, draftVars>>
    /\ UNCHANGED <<auth_res, upload_img_res, commit_img, upload_id,
                   credit_info, history_id, pollVars, image_urls>>

\* _upload_cover_file: the signed POST CommitImageUpload and the return of the Uri
CommitImageUpload ==
    /\ pc = "commit"
    /\ \E r \in CommitResponses :
        /\ Issue(ReqCommit)
        /\ sent' = Append(sent, CommitRequest(UploadAuth(auth_res.data),
                                              UploadAddress(upload_img_res.result),
                                              image_data))
        /\ commit_img' = r
        /\ IF r.kind = Raise
           THEN RaiseInUpload(TransportMessage) /\ UNCHANGED upload_id
           ELSE IF CommitHasError(r)
           THEN RaiseInUpload(EnvelopeMessage) /\ UNCHANGED upload_id
           ELSE IF r.uri = None
           THEN RaiseInUpload(LookupMessage) /\ UNCHANGED upload_id
           ELSE Continue("get_credit") /\ upload_id' = r.uri
    /\ UNCHANGED <<prompt, file_path, callVars, signerVars, imageVars, draftVars>>
    /\ UNCHANGED <<auth_res, upload_img_res, image_upload_res,
                   credit_info, history_id, pollVars, image_urls>>

\* generate_image: the choice of the model, get_credit and the test of total_credit
GetCredit ==
    /\ pc = "get_credit"
    /\ actual_model' = GetModel(ModelName(HasFilePath(file_path), model))
    /\ \E r \in CreditResponses :
        /\ Issue(ReqCredit)
        /\ IF r.kind = Raise
           THEN RaiseError(TransportError, TransportMessage) /\ UNCHANGED credit_info
           ELSE /\ credit_info' = CreditInfo(r)
                /\ Continue(IF NeedReceive(CreditInfo(r)) THEN "receive_credit"
                            ELSE "generate")
    /\ UNCHANGED <<prompt, file_path, callVars, signerVars, imageVars, rq_data, uuid_count>>
    /\ UNCHANGED <<uploadVars, history_id, pollVars, image_urls>>

\* generate_image -> receive_credit
ReceiveCredit ==
    /\ pc = "receive_credit"
    /\ \E r \in ReceiveResponses :
        /\ Issue(ReqReceive)
        /\ IF r = Raise
           THEN RaiseError(TransportError, TransportMessage)
           ELSE Continue("generate")
    /\ UNCHANGED <<prompt, file_path, callVars, signerVars, imageVars, draftVars>>
    /\ UNCHANGED <<uploadVars, credit_info, history_id, pollVars,
                   image_urls>>

\* generate_image: the draft, the submission, history_id, and the entry of the
\* poll loop
Generate ==
    /\ pc = "generate"
    /\ \E seed \in (IF HasFilePath(file_path) THEN {None} ELSE Seeds) :
        rq_data' = BuildDraft(HasFilePath(file_path), actual_model, prompt,
                              sample_strength, upload_id, width, height, seed, uuid_count)
    /\ uuid_count' = uuid_count + NumIds(HasFilePath(file_path))
    /\ \E r \in GenerateResponses :
        /\ Issue(ReqGenerate)
        /\ IF r.kind = Raise
           THEN /\ RaiseError(TransportError, TransportMessage)
                /\ UNCHANGED <<history_id, status, fail_code, item_list>>
           ELSE /\ history_id' = r.history_record_id
                /\ IF HistoryIdMissing(r.history_record_id)
                   THEN /\ RaiseError(SubmissionError, SubmissionError)
                        /\ UNCHANGED <<status, fail_code, item_list>>
                   ELSE /\ status' = PENDING
                        /\ fail_code' = None
                        /\ item_list' = <<>>
                        /\ Continue(LoopBody)
    /\ UNCHANGED <<prompt, file_path, callVars, signerVars, imageVars, actual_model>>
    /\ UNCHANGED <<uploadVars, credit_info, record, image_urls>>

\* generate_image: time.sleep(1) at the head of the loop body
Sleep ==
    /\ pc = "sleep"
    /\ Polls < MaxPolls
    /\ Issue(Sleep1)
    /\ Continue("poll")
    /\ UNCHANGED <<prompt, file_path, callVars, signerVars, imageVars, draftVars>>
    /\ UNCHANGED <<uploadVars, credit_info, history_id, pollVars,
                   image_urls>>

\* generate_image: one status request, the rest of the loop body, the loop test
\* and, when the loop ends, the extraction of the URLs and the return
PollWith(responses) ==
    /\ pc = "poll"
    /\ \E r \in responses :
        /\ Issue(ReqHistory)
        /\ IF r.kind = Raise
           THEN /\ RaiseError(TransportError, TransportMessage)
                /\ UNCHANGED <<pollVars, image_urls>>
           ELSE /\ record' = r.record
                /\ IF RecordMissing(r.record)
                   THEN /\ RaiseError(ProtocolError, ProtocolError)
                        /\ UNCHANGED <<status, fail_code, item_list, image_urls>>
                   ELSE /\ status' = r.status
                        /\ fail_code' = r.fail_code
                        /\ item_list' = r.item_list
                        /\ IF IsFailed(r.status)
                           THEN /\ RaiseError(IF IsFiltered(r.fail_code)
                                              THEN ContentFilteredError
                                              ELSE GenerationFailedError,
                                              IF IsFiltered(r.fail_code)
                                              THEN ContentFilteredError
                                              ELSE GenerationFailedError)
                                /\ UNCHANGED image_urls
                           ELSE IF LoopContinues(r.status)
                           THEN Continue(LoopBody) /\ UNCHANGED image_urls
                           ELSE /\ Continue("returned")
                                /\ image_urls' = ExtractUrls(r.item_list)
    /\ UNCHANGED <<prompt, file_path, callVars, signerVars, imageVars, draftVars>>
    /\ UNCHANGED <<uploadVars, credit_info, history_id>>

Poll == PollWith(HistoryResponses)

Next ==
    \/ Validate
    \/ GetUploadAuth
    \/ GetFileContent
    \/ ApplyImageUpload
    \/ RawUpload
    \/ CommitImageUpload
    \/ GetCredit
    \/ ReceiveCredit
    \/ Generate
    \/ Sleep
    \/ Poll

Spec == Init /\ [][Next]_vars

\* ------------------------------------------------- calls with any arguments
\* a status request of a call whose items do not matter: a failure, a pending
\* record, a finished record without items
PollBriefly ==
    PollWith({r \in HistoryResponses :
                 /\ r.item_list = <<>>
                 /\ r.fail_code = None
                 /\ r.record \in {"absent", "present"}
                 /\ r.status \in {PENDING, 50, NoStatus}})

\* the upload reads any of the images
ReadAnyFile == GetFileContentFrom(AllFileResults)

DraftBuilt == \E i \in DOMAIN trace : trace[i] = ReqGenerate

\* the client is called again once a call has returned or raised
NextCall ==
    /\ pc \in {"returned", "raised"}
    /\ calls < MaxCalls
    /\ calls' = calls + 1
    /\ prev_ids' = prev_ids \cup (IF DraftBuilt
                                  THEN {IdsOf(rq_data)[i] : i \in DOMAIN IdsOf(rq_data)}
                                  ELSE {})
    /\ prompt' \in Prompts
    /\ file_path' \in FilePaths
    /\ \E a \in AllArgs :
        /\ model' = a.model
        /\ width' = a.dims[1]
        /\ height' = a.dims[2]
        /\ sample_strength' = a.sample_strength
    /\ ResetLocals
    /\ UNCHANGED <<uuid_count, signerVars>>

BuildNext ==
    \/ Validate
    \/ GetUploadAuth
    \/ GetFileContent
    \/ ApplyImageUpload
    \/ RawUpload
    \/ CommitImageUpload
    \/ GetCredit
    \/ ReceiveCredit
    \/ Generate
    \/ Sleep
    \/ PollBriefly
    \/ NextCall

BuildSpec == InitWith(AllArgs) /\ [][BuildNext]_vars

\* ------------------------------------------------- uploads of any image
UploadNext ==
    \/ Validate
    \/ GetUploadAuth
    \/ ReadAnyFile
    \/ ApplyImageUpload
    \/ RawUpload
    \/ CommitImageUpload
    \/ GetCredit
    \/ ReceiveCredit
    \/ Generate
    \/ Sleep
    \/ PollBriefly

UploadSpec == Init /\ [][UploadNext]_vars

\* every remote call returns and the interpreter keeps running: a step that
\* can be taken is taken
LiveSpec == UploadSpec /\ WF_progressVars(UploadNext)

\* ------------------------------------------------------- calls of the signer
\* query-parameter dicts: the two of the upload and one built in another order
UploadParams == {ApplyParams(<<97>>, RandomString), CommitParams(<<97>>)}
ParamDicts ==
    UploadParams \cup {<< <<"Version", "2018-08-01">>, <<"Action", "ApplyImageUpload">> >>}

\* the arguments of _generate_authorization_and_header
SignArgs ==
    [kind : {"sign"}, access_key_id : {"ak"}, secret_access_key : {"sk"},
     session_token : {"st"}, region : {"cn-north-1"}, service : {"imagex"},
     request_method : {"GET", "post"}, request_params : UploadParams,
     request_body : {<<>>, <<EmptyBody>>, << [SessionKey |-> "sess"] >>}]

\* the header dicts handed to _signed_headers and _canonical_string
HeaderDicts ==
    {[i \in DOMAIN names |-> <<names[i], "v">>] :
        names \in {n \in SeqsUpTo({<<"a">>, <<"B">>, <<"A", "b">>, XAmzDate}, MaxHeaders) :
                      \A i, j \in DOMAIN n : i # j => n[i] # n[j]}}

\* the log keeps the last two calls
Remember(log, x) == IF Len(log) < 2 THEN Append(log, x) ELSE Append(Tail(log), x)

SignerPending == Len(sign_args) > Len(sign_result)

\* a second goes by
Tick ==
    /\ clock < MaxClock
    /\ clock' = clock + 1
    /\ UNCHANGED <<pc, prompt, file_path, draftVars, callVars, imageVars,
                   sign_args, sign_result, trace, uploadVars, credit_info, history_id,
                   pollVars, image_urls, err, err_msg>>

\* _generate_authorization_and_header: now = time.gmtime()
ReadClock ==
    /\ ~SignerPending
    /\ \E a \in SignArgs :
        sign_args' = Remember(sign_args, a @@ [now |-> GmTime(clock)])
    /\ sign_result' = IF Len(sign_result) < 2 THEN sign_result ELSE Tail(sign_result)
    /\ UNCHANGED <<pc, prompt, file_path, draftVars, callVars, imageVars,
                   clock, trace, uploadVars, credit_info, history_id,
                   pollVars, image_urls, err, err_msg>>

\* _generate_authorization_and_header: the rest of the call
SignRequest ==
    /\ SignerPending
    /\ LET a == sign_args[Len(sign_args)]
       IN  sign_result' = Append(sign_result, GenerateAuthorizationAndHeader(a.now, a))
    /\ UNCHANGED <<pc, prompt, file_path, draftVars, callVars, imageVars,
                   clock, sign_args, trace, uploadVars, credit_info, history_id,
                   pollVars, image_urls, err, err_msg>>

\* _signed_headers and _canonical_string on any header dict; the log starts
\* again with this call
CallHelpers ==
    /\ ~SignerPending
    /\ \E h \in HeaderDicts, q \in ParamDicts :
        /\ sign_args' = << [kind |-> "helpers", request_params |-> q,
                             request_headers |-> h] >>
        /\ sign_result' = << [canonical |-> CanonicalString("GET", q, h, EmptyBody),
                              signed |-> SignedHeaders(h)] >>
    /\ UNCHANGED <<pc, prompt, file_path, draftVars, callVars, imageVars,
                   clock, trace, uploadVars, credit_info, history_id,
                   pollVars, image_urls, err, err_msg>>

\* the signer at work in a call that uploads an image
SignerInit ==
    /\ Init
    /\ prompt = "a dog"
    /\ file_path = "01.jpeg"

SignerNext ==
    \/ Tick
    \/ ReadClock
    \/ SignRequest
    \/ CallHelpers

SignerSpec == SignerInit /\ [][SignerNext]_vars

\* ------------------------------------------------------------- the claims
Issued(req) == \E i \in DOMAIN trace : trace[i] = req
Count(req) == Cardinality({i \in DOMAIN trace : trace[i] = req})
LastIssued == IF trace = <<>> THEN None ELSE trace[Len(trace)]
Before(a, i) == \E j \in 1..(i - 1) : trace[j] = a

\* C1: requests are issued in phase order.  With a reference image, the
\* submission request comes only after the commit request, whose response gave
\* the asset Uri held as upload_id; every status request comes after the
\* submission, which gave a history_record_id.
C1_PhaseOrder ==
    /\ \A i \in DOMAIN trace :
        (trace[i] = ReqGenerate /\ Truthy(file_path)) =>
            /\ Before(ReqCommit, i)
            /\ commit_img.kind = Json
            /\ Truthy(commit_img.uri)
            /\ upload_id = commit_img.uri
    /\ \A i \in DOMAIN trace :
        trace[i] = ReqHistory => (Before(ReqGenerate, i) /\ Truthy(history_id))

C1_Witness == Truthy(file_path) /\ Issued(ReqHistory)

\* C2: generate_image returns a URL sequence only if the last status observed
\* is done(50); a status that is neither 20, 30 nor 50, or an absent status,
\* never makes it return URLs.
C2_UrlsOnlyWhenDone == image_urls # UnsetUrls => status = 50

\* C3: a status response reporting failed(30) makes generate_image fail and
\* return nothing: with the content-filtered error if fail_code is the string
\* "2038", with the generation-failed error for every other fail_code, absent
\* ones included; the two errors differ.
C3_FailedStatus ==
    status = FAILED =>
        /\ pc = "raised"
        /\ image_urls = UnsetUrls
        /\ err = (IF fail_code = "2038" THEN ContentFilteredError
                  ELSE GenerationFailedError)
        /\ ContentFilteredError # GenerationFailedError

C3_Witness == status = FAILED /\ fail_code = "int:2038" /\ err = GenerationFailedError

\* C4: a status response with no record for history_id makes generate_image
\* fail with the protocol error at that poll: nothing is returned, the status
\* request that got the response is the last thing issued and nothing can follow.
C4_MissingRecord ==
    record \in {"absent", "empty"} =>
        /\ pc = "raised"
        /\ err = ProtocolError
        /\ image_urls = UnsetUrls
        /\ LastIssued = ReqHistory
        /\ ~ENABLED Next

C4_Witness == record = "absent" /\ Count(ReqHistory) = 2

\* the URL the claim gives to an item: the image_url of its first large image
\* if there is one, else its cover_url, else none
ClaimedUrlOf(item) ==
    IF item.large_images # <<>> /\ Truthy(item.large_images[1])
    THEN item.large_images[1]
    ELSE IF Truthy(item.cover_url) THEN item.cover_url ELSE None

RECURSIVE ClaimedUrls(_)
ClaimedUrls(items) ==
    IF items = <<>> THEN <<>>
    ELSE (IF Truthy(ClaimedUrlOf(Head(items))) THEN <<ClaimedUrlOf(Head(items))>>
          ELSE <<>>) \o ClaimedUrls(Tail(items))

\* C5: when the job is done the list returned holds, in item order, for each
\* item its first large-image URL if present, else its cover-image URL, and
\* nothing for an item that has neither.
C5_UrlPerItem ==
    (image_urls # UnsetUrls /\ status = 50) => image_urls = ClaimedUrls(item_list)

UploadRequests == {ReqToken, ReqFile, ReqApply, ReqRaw, ReqCommit}

UploadAborted ==
    /\ pc = "raised"
    /\ err = UploadError
    /\ upload_id = None
    /\ image_urls = UnsetUrls
    /\ \A req \in {ReqCredit, ReqReceive, ReqGenerate, ReqHistory} : ~Issued(req)
    /\ \A req \in UploadRequests : Count(req) <= 1

\* C6: the upload aborts on the first failing step, without retry.  An Error
\* envelope in the apply response, a raw-upload code other than 2000 or an
\* Error envelope in the commit response each end the call with the upload
\* error: no later upload step is requested, no Uri is returned, and no credit,
\* submission or status request is issued.
C6_UploadAborts ==
    /\ (Issued(ReqApply) /\ upload_img_res.kind = Json /\ upload_img_res.envelope)
        => (UploadAborted /\ LastIssued = ReqApply)
    /\ (Issued(ReqRaw) /\ image_upload_res.kind = Json
        /\ image_upload_res.code # UploadOk)
        => (UploadAborted /\ LastIssued = ReqRaw)
    /\ (Issued(ReqCommit) /\ commit_img.kind = Json /\ commit_img.envelope)
        => (UploadAborted /\ LastIssued = ReqCommit)

C6_Witness ==
    /\ Issued(ReqCommit)
    /\ commit_img.envelope
    /\ commit_img.uri = "uri1"
    /\ pc = "raised"

AuthError == "AuthError"

\* C7: a token response without a data payload makes the upload fail with
\* AuthError, a kind other than UploadError, as the caller sees it, and no
\* apply, raw-upload or commit request is issued.
C7_AuthErrorSeen ==
    (Issued(ReqToken) /\ auth_res.kind = Json /\ auth_res.data = None) =>
        /\ pc = "raised"
        /\ err = AuthError
        /\ \A req \in {ReqApply, ReqRaw, ReqCommit} : ~Issued(req)

\* C8: claiming the free credit is best-effort: a call whose last request is
\* the credit_receive request has not failed there, it goes on to submit.
C8_ReceiveBestEffort == LastIssued = ReqReceive => pc # "raised"

\* C9: an empty prompt makes generate_image fail with the validation error
\* before any network call: nothing at all is issued, with or without a
\* reference image.
C9_EmptyPrompt ==
    (prompt = "" /\ pc # "start") =>
        /\ pc = "raised"
        /\ err = ValidationError
        /\ trace = <<>>
        /\ ~ENABLED Next

C9_Witness == prompt = "" /\ Truthy(file_path) /\ err = ValidationError

\* C10: a submission response without a history_record_id makes
\* generate_image fail with the submission error, and neither a sleep nor a
\* status request follows.
C10_NoHistoryId ==
    (history_id # Unbound /\ ~Truthy(history_id)) =>
        /\ pc = "raised"
        /\ err = SubmissionError
        /\ LastIssued = ReqGenerate
        /\ ~Issued(Sleep1)
        /\ ~Issued(ReqHistory)
        /\ ~ENABLED Next

C10_Witness == history_id = "" /\ err = SubmissionError

\* the single component of the submitted draft and its abilities
Component == rq_data.draft_content.component_list[1]
Abilities == Component.abilities.ability

\* C11: the backend model id of a built draft is the blend default's id
\* (jimeng-3.0) when an image was supplied, whatever model the caller passed;
\* otherwise MODEL_MAP[model] for a known name and the id of jimeng-3.1 for an
\* unknown or absent name.  core_param.model and extend.root_model both carry it.
C11_ModelResolved ==
    DraftBuilt =>
        LET expected == IF Truthy(file_path) THEN MODEL_MAP["jimeng-3.0"]
                        ELSE IF model \in DOMAIN MODEL_MAP THEN MODEL_MAP[model]
                        ELSE MODEL_MAP["jimeng-3.1"]
        IN  /\ rq_data.extend.root_model = expected
            /\ \A n \in DOMAIN Abilities : Abilities[n].core_param.model = expected

C11_Witness ==
    /\ DraftBuilt
    /\ Truthy(file_path)
    /\ model = "jimeng-2.1"
    /\ rq_data.extend.root_model = "high_aes_general_v30l:general_v3.0_18b"

\* C12: the seed of a generate-mode draft is at least 2500000000 and strictly
\* less than 2600000000.
C12_SeedHalfOpen ==
    (DraftBuilt /\ ~Truthy(file_path)) =>
        LET seed == Abilities["generate"].core_param.seed
        IN  /\ seed[1] >= 25
            /\ seed[1] < 26

\* C13: the identifiers of the nodes of a built draft and its submit_id are
\* pairwise distinct, and none of them was produced for a draft of an earlier
\* call, the generator returning a fresh value each time.
C13_FreshIds ==
    DraftBuilt =>
        LET ids == IdsOf(rq_data)
        IN  /\ \A i, j \in DOMAIN ids : i # j => ids[i] # ids[j]
            /\ \A i \in DOMAIN ids : ids[i] \notin prev_ids

C13_Witness ==
    /\ calls = 2
    /\ prev_ids # {}
    /\ DraftBuilt
    /\ Truthy(file_path)
    /\ Len(IdsOf(rq_data)) = 13

\* C14: a submitted draft has a single image_base_component whose abilities
\* hold exactly one ability, blend iff an image was supplied and generate
\* otherwise, generate_type naming it.  In blend mode the prompt is the caller's
\* prompt followed by "##", the canvas is 1360x1360, and the single ability_list
\* entry is byte_edit with strength 0.5 and the Uri of this call's commit step.
C14_SingleAbility ==
    DraftBuilt =>
        /\ Len(rq_data.draft_content.component_list) = 1
        /\ Component.type = "image_base_component"
        /\ Cardinality(DOMAIN Abilities) = 1
        /\ DOMAIN Abilities = {IF Truthy(file_path) THEN "blend" ELSE "generate"}
        /\ Component.generate_type \in DOMAIN Abilities
        /\ Truthy(file_path) =>
            LET blend == Abilities["blend"]
                entry == blend.ability_list[1]
            IN  /\ blend.core_param.prompt = prompt \o "##"
                /\ blend.core_param.large_image_info.width = 1360
                /\ blend.core_param.large_image_info.height = 1360
                /\ Len(blend.ability_list) = 1
                /\ entry.name = "byte_edit"
                /\ entry.strength = "0.5"
                /\ Len(entry.image_list) = 1
                /\ entry.image_list[1].image_uri = commit_img.uri
                /\ entry.image_uri_list = <<commit_img.uri>>

C14_Witness ==
    /\ DraftBuilt
    /\ Truthy(file_path)
    /\ width = 512
    /\ height = 768
    /\ sample_strength = "0.8"
    /\ commit_img.uri = "uri2"

\* the hexadecimal CRC-32 (ISO-HDLC, as zlib.crc32 computes it) of the images
StandardCrc32 ==
    (<<>> :> "0") @@ (<<97>> :> "e8b7be43") @@ (<<255>> :> "ff000000")
    @@ (<<97, 32>> :> "65168d1") @@ (<<97, 98, 99>> :> "352441c2")

\* C17 as stated: the Content-Crc32 value of the raw upload is the CRC-32 of
\* the image bytes with polynomial 0x104C11D97 (reflected, init 0, final XOR
\* 0xFFFFFFFF), not the default CRC-32, as lower-case hexadecimal.
C17_PolynomialD97 ==
    Issued(ReqRaw) =>
        /\ image_crc32 = HexOf(CrcWith(CrcPoly_D97, image_data))
        /\ image_data # <<>> => image_crc32 # StandardCrc32[image_data]

\* C17: the Content-Crc32 value of the raw upload is the CRC-32 of the image
\* bytes with polynomial 0x104C11DB7 (reflected, init 0, final XOR 0xFFFFFFFF),
\* which is the default CRC-32, as lower-case hexadecimal digits of the unsigned
\* value without leading zeros.
C17_StandardCrc32 ==
    Issued(ReqRaw) => image_crc32 = StandardCrc32[image_data]

C17_Witness ==
    /\ Issued(ReqRaw)
    /\ image_data = <<97, 32>>
    /\ image_crc32 = "65168d1"

\* the names a ';'-joined list holds
RECURSIVE Split(_, _, _)
Split(chars, sep, word) ==
    IF chars = <<>> THEN <<word>>
    ELSE IF Head(chars) = sep THEN <<word>> \o Split(Tail(chars), sep, <<>>)
    ELSE Split(Tail(chars), sep, Append(word, Head(chars)))

SignCalls == {i \in DOMAIN sign_result : sign_args[i].kind = "sign"}
HelperCalls == {i \in DOMAIN sign_result : sign_args[i].kind = "helpers"}
NamesOf(headers) == {Keys(headers)[j] : j \in DOMAIN headers}

\* C15: the headers the signer returns always hold X-Amz-Date,
\* X-Amz-Security-Token and Authorization, and hold X-Amz-Content-Sha256 iff the
\* request body is non-empty; SignedHeaders in Authorization names exactly the
\* returned headers other than Authorization.
C15_SignerHeaders ==
    \A i \in SignCalls :
        LET headers == sign_result[i]
            names == NamesOf(headers)
            signed == Split(Get(headers, Authorization).signed_headers, ";", <<>>)
        IN  /\ {XAmzDate, XAmzSecurityToken, Authorization} \subseteq names
            /\ XAmzContentSha256 \in names <=> DOMAIN BodyOf(sign_args[i]) # {}
            /\ Len(signed) = Cardinality(names) - 1
            /\ {signed[j] : j \in DOMAIN signed}
                   = {Lower(n) : n \in names \ {Authorization}}

C15_Witness ==
    /\ SignCalls = {1, 2}
    /\ sign_args[1].request_body = << [SessionKey |-> "sess"] >>
    /\ XAmzContentSha256 \in NamesOf(sign_result[1])
    /\ sign_args[2].request_body = <<EmptyBody>>
    /\ XAmzContentSha256 \notin NamesOf(sign_result[2])

\* C16: two signer calls with identical credentials, region, service, method,
\* query parameters, body and timestamp return identical Authorization headers,
\* and within a call the clock is read once: the X-Amz-Date header, the date of
\* the credential scope, the signing key and the string to sign all carry the
\* timestamp read when the call began.
C16_OneTimestamp ==
    /\ \A i, j \in SignCalls :
        sign_args[i] = sign_args[j] =>
            Get(sign_result[i], Authorization) = Get(sign_result[j], Authorization)
    /\ \A i \in SignCalls :
        LET now == sign_args[i].now
            stamp == now.day \o "T" \o now.time \o "Z"
            auth == Get(sign_result[i], Authorization)
            signing_key == auth.signature[2]
            string_to_sign == auth.signature[3]
        IN  /\ Get(sign_result[i], XAmzDate) = stamp
            /\ auth.credential[2][1] = now.day
            /\ signing_key[2][2][2][3] = now.day
            /\ string_to_sign[2] = stamp
            /\ string_to_sign[3][1] = now.day

C16_Witness ==
    /\ SignCalls = {1, 2}
    /\ sign_args[1] = sign_args[2]
    /\ sign_args[2].now = GmTime(0)
    /\ clock = 1
    /\ Get(sign_result[1], Authorization) = Get(sign_result[2], Authorization)

\* C20: for every header dict handed to the signer's helpers the names are
\* lower-cased before they are sorted, in the canonical headers and in
\* SignedHeaders alike, so the key:value lines of the canonical request come in
\* the order of the names in SignedHeaders (header sets such as {"a", "B"}
\* included).
C20_SameOrder ==
    \A i \in HelperCalls :
        LET lines == sign_result[i].canonical.canonical_headers
        IN  Join([j \in DOMAIN lines |-> lines[j][1]], ";") = sign_result[i].signed

Ended == pc \in {"returned", "raised"}

\* C18: the poll loop has no iteration cap or timeout.  Every remote call
\* returning, the call ends once the status endpoint reports a non-pending
\* status, a missing record or a transport failure; as long as every poll
\* reports pending(20) the call does not return and goes on to the next status
\* request, so that a call that has not ended has made MaxPolls status requests,
\* all of them answered pending.
C18_PollUntilTerminal ==
    /\ [](pc \in {"sleep", "poll"} => status = PENDING)
    /\ [](pc = "returned" => status # PENDING)
    /\ <>[](Ended \/ (pc = "sleep" /\ Polls = MaxPolls /\ status = PENDING))

C18_Witness ==
    /\ pc = "sleep"
    /\ Polls = MaxPolls
    /\ status = PENDING
    /\ record = "present"

\* the requests that are not the status request
OneShotRequests == {ReqToken, ReqApply, ReqRaw, ReqCommit, ReqCredit, ReqReceive, ReqGenerate}

\* C19: no retries: within one call the token, apply, raw-upload, commit,
\* credit-check, credit-claim and submission requests are each issued at most
\* once, only the status request may be repeated, and once the call has failed
\* it issues no further request.
C19_NoRetries ==
    /\ [](\A req \in OneShotRequests : Count(req) <= 1)
    /\ [](err # NoError => pc = "raised")
    /\ [][pc = "raised" => (pc' = "raised" /\ trace' = trace)]_progressVars

C19_Witness ==
    /\ pc = "raised"
    /\ err_msg = TransportMessage
    /\ LastIssued = ReqHistory
    /\ Count(ReqHistory) > 1
    /\ Count(ReqCommit) = 1
    /\ Count(ReqGenerate) = 1

\* the characters of the names of the query parameters
KeyChars ==
    [Action |-> <<"A", "c", "t", "i", "o", "n">>,
     FileSize |-> <<"F", "i", "l", "e", "S", "i", "z", "e">>,
     ServiceId |-> <<"S", "e", "r", "v", "i", "c", "e", "I", "d">>,
     Version |-> <<"V", "e", "r", "s", "i", "o", "n">>,
     s |-> <<"s">>]

\* C21: the query string of the canonical request is sorted by parameter key
\* for every query-parameter dict handed to the signer, whatever the order the
\* caller built it in.
C21_QuerySorted ==
    \A i \in HelperCalls :
        LET query == sign_result[i].canonical.query
        IN  \A j, k \in DOMAIN query :
                j < k => StrLess(KeyChars[query[j][1]], KeyChars[query[k][1]])

\* C22: polling alternates sleep and status request.  Every status request
\* comes right after exactly one sleep and every sleep is followed by a status
\* request; when the call has ended the sleeps are as many as the status
\* requests; a call returns URLs only after a submission and at least one
\* status request.
C22_SleepThenStatus ==
    /\ \A i \in DOMAIN trace :
        trace[i] = ReqHistory =>
            /\ i > 1 /\ trace[i - 1] = Sleep1
            /\ i > 2 => trace[i - 2] # Sleep1
    /\ \A i \in DOMAIN trace :
        (trace[i] = Sleep1 /\ i < Len(trace)) => trace[i + 1] = ReqHistory
    /\ Ended => Count(Sleep1) = Count(ReqHistory)
    /\ pc = "returned" =>
        \E i, j \in DOMAIN trace :
            i < j /\ trace[i] = ReqGenerate /\ trace[j] = ReqHistory

C22_Witness ==
    /\ pc = "returned"
    /\ Count(Sleep1) = MaxPolls
    /\ Count(ReqHistory) = MaxPolls
    /\ trace[Len(trace)] = ReqHistory
    /\ trace[Len(trace) - 1] = Sleep1

\* C23: the status the client holds for a job only moves forward.  It is
\* pending(20) when polling begins, and once a status response has left it
\* other than 20 it is never 20 again and no further status request is issued.
C23_MonotonicStatus ==
    /\ []((pc \in {"sleep", "poll"} /\ Polls = 0) => status = PENDING)
    /\ [][(Polls > 0 /\ status # PENDING) =>
              (status' # PENDING /\ Polls' = Polls)]_vars

C23_Witness ==
    /\ pc = "returned"
    /\ Polls = 2
    /\ status = 50
    /\ trace[Len(trace)] = ReqHistory

\* the positions of a call up to its credit check
BeforeCredit ==
    {"start", "get_upload_auth", "get_file_content", "apply", "upload", "commit",
     "get_credit"}

\* the credit check is requested once by a call that has passed validation and
\* upload and not at all by another, after the requests of the upload and before
\* the submission; credit_receive is requested at most once
CreditCheckedOnce ==
    /\ Count(ReqCredit) =
          IF pc \in BeforeCredit \/ err \in {ValidationError, UploadError} THEN 0 ELSE 1
    /\ \A i, j \in DOMAIN trace :
          trace[i] = ReqCredit =>
              /\ trace[j] \in UploadRequests => j < i
              /\ trace[j] \in {ReqReceive, ReqGenerate} => i < j
    /\ Count(ReqReceive) <= 1

\* the total get_credit has reported, if any
TotalReported(totals) == credit_info # Unset /\ credit_info.total_credit \in totals

\* C24 as stated: the credit check is requested exactly once per call that
\* passes validation and upload, after the upload and before the submission;
\* credit_receive is requested iff the reported total credit is zero, and at
\* most once.
C24_ReceiveIffZero ==
    /\ CreditCheckedOnce
    /\ Issued(ReqReceive) => TotalReported({0})
    /\ (TotalReported({0}) /\ pc # "receive_credit") => Issued(ReqReceive)

\* C24 as amended: credit_receive is requested iff the reported total credit is
\* zero or less.
C24_ReceiveIffNoCredit ==
    /\ CreditCheckedOnce
    /\ Issued(ReqReceive) => TotalReported(-3..0)
    /\ (TotalReported(-3..0) /\ pc # "receive_credit") => Issued(ReqReceive)

C24_Witness ==
    /\ Issued(ReqReceive)
    /\ Issued(ReqGenerate)
    /\ Issued(ReqCommit)
    /\ credit_info.total_credit = -1

\* the value of a parameter in a query string
QueryValue(query, key) == query[CHOOSE i \in DOMAIN query : query[i][1] = key][3]

\* the requests of the upload that carry a signature: the first and the third
SignedSent == {i \in DOMAIN sent : i # 2}

\* C25: within one upload the credentials and the image are obtained once and
\* reused unchanged.  One token request is made; the apply and the commit
\* requests carry the access key, the session token and a signature keyed with
\* the secret of that token response; FileSize in both is the length of the
\* bytes the raw upload posts; the Content-Crc32 sent is the CRC-32 of these
\* bytes; the SessionKey committed is the one of the apply response.
C25_OneTokenOneImage ==
    /\ Count(ReqToken) <= 1
    /\ Count(ReqFile) <= 1
    /\ Len(sent) = Count(ReqApply) + Count(ReqRaw) + Count(ReqCommit)
    /\ Len(sent) <= 3
    /\ \A i \in SignedSent :
        LET auth == Get(sent[i].headers, Authorization)
            signing_key == auth.signature[2]
        IN  /\ Count(ReqToken) = 1
            /\ auth.credential[1] = "ak:" \o auth_res.data
            /\ signing_key[2][2][2][2] = <<"AWS4", "sk:" \o auth_res.data>>
            /\ Get(sent[i].headers, XAmzSecurityToken) = "st:" \o auth_res.data
            /\ Len(sent) >= 2 =>
                  QueryValue(sent[i].query, "FileSize") = ToString(Len(sent[2].data))
    /\ Len(sent) >= 2 =>
        /\ sent[2].data = image_data
        /\ sent[2].content_crc32 = StandardCrc32[sent[2].data]
    /\ Len(sent) = 3 =>
        sent[3].json = [SessionKey |-> "key:" \o upload_img_res.result]

C25_Witness ==
    /\ Len(sent) = 3
    /\ auth_res.data = "auth2"
    /\ upload_img_res.result = "address2"
    /\ sent[2].data = <<97, 98, 99>>
    /\ QueryValue(sent[1].query, "FileSize") = "3"
    /\ QueryValue(sent[3].query, "FileSize") = "3"
    /\ sent[3].json.SessionKey = "key:address2"
    /\ pc = "get_credit"

====
